---- MODULE Spec2Model ----
(***************************************************************************)
(* Batched deletion of every row of the Binaries_deleted table.            *)
(*                                                                         *)
(* DatabaseManager (database.py) is the storage gateway: every method      *)
(* opens its own connection, runs one statement and closes the connection. *)
(* BinariesDeleter (main.py) is the controller: validate, preview          *)
(* (get_deletion_statistics / dry_run) and delete_all_records (Run).       *)
(*                                                                         *)
(* delete_all_records is cut into one step per gateway call, because the   *)
(* table is shared with whoever else writes to it between two calls.       *)
(* Wall-clock values (start_time, duration_seconds, average_batch_time,    *)
(* estimated_time_minutes, the 0.1 s sleep) carry no state the properties  *)
(* read and are left out of the records.                                   *)
(***************************************************************************)
EXTENDS Integers, Sequences, FiniteSets, TLC

\* ---------------------------------------------------------------- bounds
\* Row identifiers are 1..MaxId; the initial table is any subset of them.
MaxId == 4
\* batch_size ranges over 1..MaxBatch.
MaxBatch == 3
\* How many rows an external writer may insert or delete (SpecExt only).
MaxExternal == 1

\* main.py:58  min(10, total_records)
SampleSize == 10

Ids == 1..MaxId
Controllers == {"c1", "c2"}

VARIABLES
    table,              \* rows of public."Binaries_deleted" (their BinaryId)
    batch_size,         \* self.batch_size, per controller
    total_deleted,      \* self.total_deleted, per controller
    pc,                 \* where delete_all_records stands, per controller
    initial_count,      \* local initial_count
    batches_processed,  \* local batches_processed
    batch,              \* local binary_ids of the page just fetched
    result,             \* the dict delete_all_records returned
    observer,           \* whether progress_callback was passed to this Run
    observer_log,       \* the keyword arguments of every progress_callback call
    calls,              \* gateway calls issued by the current Run, in order
    committed,          \* rowcount of every DELETE the current Run committed
    table0,             \* the table when the current Run was entered
    prev_run,           \* success and total_deleted of the dict the Run before
                        \* the current one returned
    stats,              \* what the last get_deletion_statistics / dry_run gave
    ext_writes,         \* rows written by somebody else so far
    conn_log,           \* what happened on the connections of the gateway
                        \* calls of the last step that made any, in order
    env,                \* the process environment: DB_HOST, DB_NAME, DB_USER,
                        \* DB_PASSWORD, DB_PORT
    cli,                \* cli.main: where it stands, its flags, its exit code
    valid               \* what validate_environment returned, per controller

vars == <<table, batch_size, total_deleted, pc, initial_count, batches_processed,
          batch, result, observer, observer_log, calls, committed, table0,
          prev_run, stats, ext_writes, conn_log, env, cli, valid>>

\* What only cli.main and validate_environment write.
cli_vars == <<env, cli, valid>>

\* ---------------------------------------------------------------- helpers
Min(a, b) == IF a < b THEN a ELSE b

SetMin(S) == CHOOSE x \in S : \A y \in S : x <= y

RECURSIVE SortedIds(_)
\* ORDER BY "BinaryId" ASC
SortedIds(S) == IF S = {} THEN <<>>
                ELSE <<SetMin(S)>> \o SortedIds(S \ {SetMin(S)})

RECURSIVE SumSeq(_)
SumSeq(s) == IF s = <<>> THEN 0 ELSE Head(s) + SumSeq(Tail(s))

SeqToSet(s) == {s[i] : i \in DOMAIN s}

\* ceil(n / b) for b >= 1
CeilDiv(n, b) == IF n % b = 0 THEN n \div b ELSE (n \div b) + 1

\* ---------------------------------------------------------------- gateway
\* Where a gateway call can fail: psycopg2.connect, cursor.execute, and for
\* the delete conn.commit.  "none" is the call that succeeds.
ReadFails == {"none", "connect", "execute"}
WriteFails == {"none", "connect", "execute", "commit"}

\* Variant: the connection is not closed when the body raised.
get_connection_leaking(fail, body) ==
    IF fail = "connect" THEN <<>>
    ELSE IF fail \in SeqToSet(body)
    THEN <<"connect">>
         \o SubSeq(body, 1, (CHOOSE i \in DOMAIN body : body[i] = fail) - 1)
         \o <<"rollback">>
    ELSE <<"connect">> \o body \o <<"close">>

\* with self.get_connection() as conn: body.  What happens on the connection
\* when the step `fail` of it raises ("connect" is psycopg2.connect itself,
\* after which there is no connection to roll back or close): the steps of
\* the body that completed, the rollback of the except branch, the close of
\* the finally branch.
get_connection(fail, body) ==
    IF fail = "connect" THEN <<>>
    ELSE IF fail \in SeqToSet(body)
    THEN <<"connect">>
         \o SubSeq(body, 1, (CHOOSE i \in DOMAIN body : body[i] = fail) - 1)
         \o <<"rollback", "close">>
    ELSE <<"connect">> \o body \o <<"close">>

\* The with-block ran to its end.
Completed(ev) == ev # <<>> /\ "rollback" \notin SeqToSet(ev)

\* cursor.execute(...) and the fetch of its result
ReadBody == <<"execute">>
\* cursor.execute(...); conn.commit()
WriteBody == <<"execute", "commit">>

Ok(t, r) == [raised |-> FALSE, error |-> "", ret |-> r, table |-> t]
Raise(t, e) == [raised |-> TRUE, error |-> e, ret |-> 0, table |-> t]

\* SELECT COUNT(*) FROM public."Binaries_deleted"
count_binaries_deleted_records(t, fail) ==
    IF Completed(get_connection(fail, ReadBody)) THEN Ok(t, Cardinality(t))
    ELSE Raise(t, fail)

\* Variant: LIMIT taken one too large.
SelectBatchOffByOne(t, limit, offset) ==
    LET s == SortedIds(t)
    IN  SubSeq(s, offset + 1, Min(offset + limit + 1, Len(s)))

\* Variant: OFFSET taken one too large, the first row is never fetched.
SelectBatchSkipFirst(t, limit, offset) ==
    LET s == SortedIds(t)
    IN  SubSeq(s, offset + 2, Min(offset + 1 + limit, Len(s)))

\* Variant: the page is taken from the high end of the order.
SelectBatchFromTop(t, limit, offset) ==
    LET s == SortedIds(t)
    IN  SubSeq(s, Len(s) - Min(offset + limit, Len(s)) + 1, Len(s) - offset)

\* SELECT "BinaryId" ... ORDER BY "BinaryId" ASC LIMIT limit OFFSET offset
SelectBatch(t, limit, offset) ==
    LET s == SortedIds(t)
    IN  SubSeq(s, offset + 1, Min(offset + limit, Len(s)))

\* Variant: the fetch removes the rows it returns.
get_binaries_deleted_batch_deleting(t, limit, offset, fail) ==
    IF fail # "none" THEN Raise(t, fail)
    ELSE Ok(t \ SeqToSet(SelectBatch(t, limit, offset)), SelectBatch(t, limit, offset))

get_binaries_deleted_batch(t, limit, offset, fail) ==
    IF Completed(get_connection(fail, ReadBody))
    THEN Ok(t, SelectBatch(t, limit, offset))
    ELSE Raise(t, fail)

\* Variant: a failing commit leaves the rows of the batch deleted.
delete_binaries_deleted_batch_no_rollback(t, ids, fail) ==
    IF ids = <<>> THEN Ok(t, 0)
    ELSE IF fail \in {"connect", "execute"} THEN Raise(t, fail)
    ELSE LET pending == SeqToSet(ids) \cap t
         IN  IF fail = "commit" THEN Raise(t \ pending, fail)
             ELSE Ok(t \ pending, Cardinality(pending))

\* Variant: the rowcount is returned but the rows stay (no commit).
delete_binaries_deleted_batch_uncommitted(t, ids, fail) ==
    IF ids = <<>> THEN Ok(t, 0)
    ELSE IF fail # "none" THEN Raise(t, fail)
    ELSE Ok(t, Cardinality(SeqToSet(ids) \cap t))

\* Variant: the number of identifiers is returned instead of cursor.rowcount.
delete_binaries_deleted_batch_submitted(t, ids, fail) ==
    IF ids = <<>> THEN Ok(t, 0)
    ELSE IF fail # "none" THEN Raise(t, fail)
    ELSE Ok(t \ SeqToSet(ids), Len(ids))

\* Variant: the last identifier is left out of the IN list.
delete_binaries_deleted_batch_partial(t, ids, fail) ==
    IF ids = <<>> THEN Ok(t, 0)
    ELSE IF fail # "none" THEN Raise(t, fail)
    ELSE LET pending == SeqToSet(SubSeq(ids, 1, Len(ids) - 1)) \cap t
         IN  Ok(t \ pending, Cardinality(pending))

\* DELETE ... WHERE "BinaryId" IN (ids); rowcount; commit.  The rows are gone
\* once the commit has returned; a failure before that rolls the transaction
\* back (get_connection).  No connection is opened for an empty list.
delete_binaries_deleted_batch(t, ids, fail) ==
    IF ids = <<>> THEN Ok(t, 0)
    ELSE LET pending == SeqToSet(ids) \cap t
         IN  IF Completed(get_connection(fail, WriteBody))
             THEN Ok(t \ pending, Cardinality(pending))
             ELSE Raise(t, fail)

\* The connection events of each gateway method.
count_conn(fail) == get_connection(fail, ReadBody)
fetch_conn(fail) == get_connection(fail, ReadBody)
delete_conn(ids, fail) ==
    IF ids = <<>> THEN <<>> ELSE get_connection(fail, WriteBody)

\* Variant: the probe's own handler lets a failed connect through.
ProbeHandledUnlessConnect(fail) == fail # "connect"

\* test_connection: except Exception as e: ... return False
ProbeHandled(fail) == TRUE

\* What can go wrong in test_connection: the connect, the SELECT 1, or a
\* row that is not 1.
ProbeFails == {"none", "connect", "execute", "badresult"}

\* The connection events of test_connection: a wrong row raises nothing.
test_conn(fail) ==
    get_connection(IF fail = "badresult" THEN "none" ELSE fail, ReadBody)

\* SELECT 1; return result[0] == 1; False on any exception.
test_connection(t, fail) ==
    IF Completed(test_conn(fail)) THEN Ok(t, fail # "badresult")
    ELSE IF ProbeHandled(fail) THEN Ok(t, FALSE)
    ELSE Raise(t, fail)

\* ---------------------------------------------------------------- configuration
RequiredVars == <<"DB_HOST", "DB_NAME", "DB_USER", "DB_PASSWORD">>
EnvVars == SeqToSet(RequiredVars) \cup {"DB_PORT"}

\* A variable is absent, set to the empty string, or set to a usable value
\* (for DB_PORT: to digits).
EnvStates == [EnvVars -> {"absent", "empty", "set"}]
FullEnv == [v \in EnvVars |-> "set"]

\* Variant: only an absent variable counts as missing.
IsMissingAbsentOnly(value) == value = "absent"

\* not os.getenv(var): absent or empty
IsMissing(value) == value # "set"

\* DatabaseConfig.__init__: int(os.getenv("DB_PORT", "5432")) comes first and
\* raises ValueError on a port that is no number; then the required
\* variables are checked and ValueError lists the missing ones.
DatabaseConfig(e) ==
    IF e["DB_PORT"] = "empty"
    THEN [raised |-> TRUE, error |-> <<"invalid literal for int()">>]
    ELSE LET Missing(v) == IsMissing(e[v])
             missing_vars == SelectSeq(RequiredVars, Missing)
         IN  IF missing_vars # <<>>
             THEN [raised |-> TRUE,
                   error |-> <<"Missing required environment variables">>
                             \o missing_vars]
             ELSE [raised |-> FALSE, error |-> <<>>]

\* ---------------------------------------------------------------- controller
NoResult == [pending |-> TRUE]
NoStats == [pending |-> TRUE]
NoProbe == [pending |-> TRUE]

\* validate_environment: False when test_connection is, True otherwise.
validate_environment(t, fail) ==
    LET out == test_connection(t, fail)
    IN  IF out.raised THEN out
        ELSE IF ~out.ret THEN Ok(out.table, FALSE)
        ELSE Ok(out.table, TRUE)

\* main.py:83-89 (duration_seconds left out)
EmptyRecord ==
    [success |-> TRUE, initial_count |-> 0, total_deleted |-> 0,
     batches_processed |-> 0]

\* main.py:132-140
SuccessRecord(ic, fc, td, bp) ==
    [success |-> TRUE, initial_count |-> ic, final_count |-> fc,
     total_deleted |-> td, batches_processed |-> bp]

\* main.py:149-154
FailureRecord(err, td) ==
    [success |-> FALSE, error |-> err, total_deleted |-> td]

\* Variant: the counter is not reset when a Run is entered.
KeepTotalDeleted(old) == old

\* self.total_deleted = 0
ResetTotalDeleted(old) == 0

\* Variant: the empty table is not told apart.
EarlyReturnNever(n) == n < 0

\* if initial_count == 0
EarlyReturn(n) == n = 0

\* Variant: = in place of +=.
SetDeleted(total, deleted_count) == deleted_count

\* self.total_deleted += deleted_count
AddDeleted(total, deleted_count) == total + deleted_count

\* Variant: a handler that lets connection errors through.
HandledUnlessConnect(err) == err # "connect"

\* except Exception as e: every failure of a gateway call is an Exception
\* (psycopg2.Error and whatever else the gateway re-raises).
Handled(err) == TRUE

\* Variant: a page that is not full ends the loop.
NoMoreRecordsShortPage(page) == Len(page) <= 1

\* if not batch: break
NoMoreRecords(page) == page = <<>>

\* Variant: the estimate rounds down.
EstimatedBatchesFloor(total_records, b) == total_records \div b

\* estimated_batches = (total_records + self.batch_size - 1) // self.batch_size
EstimatedBatches(total_records, b) == (total_records + b - 1) \div b

get_deletion_statistics(t, b, fail) ==
    LET c == count_binaries_deleted_records(t, fail)
    IN  IF c.raised THEN [raised |-> TRUE, error |-> c.error, ret |-> NoStats,
                          table |-> c.table]
        ELSE Ok(c.table, [total_records |-> c.ret, batch_size |-> b,
                          estimated_batches |-> EstimatedBatches(c.ret, b)])

dry_run(t, b, fail, fail_sample) ==
    LET s == get_deletion_statistics(t, b, fail)
    IN  IF s.raised THEN s
        ELSE LET f == get_binaries_deleted_batch(
                          s.table, Min(SampleSize, s.ret.total_records), 0,
                          fail_sample)
             IN  Ok(f.table,
                    [total_records |-> s.ret.total_records,
                     batch_size |-> s.ret.batch_size,
                     estimated_batches |-> s.ret.estimated_batches,
                     sample_records |-> IF f.raised THEN <<>> ELSE f.ret])

\* ---------------------------------------------------------------- steps
Returned(c) == pc[c] \in {"Idle", "Done", "Failed", "Raised"}

\* One gateway call as the Run saw it: ids is the page a fetch returned, or
\* the identifiers handed to a delete; n is the count, the page length or the
\* rowcount returned.
Call(name, out, n, ids) ==
    [op |-> name, ok |-> ~out.raised, n |-> n, ids |-> ids]

\* Variant: the failed call is tried again instead of ending the Run.
ExceptRetry(c, err) ==
    /\ pc' = pc
    /\ result' = result

\* The except branch: a failure record with whatever self.total_deleted holds
\* by then.  When the handler does not catch, the fault leaves
\* delete_all_records and there is no record.
Except(c, err) ==
    IF Handled(err)
    THEN /\ pc' = [pc EXCEPT ![c] = "Failed"]
         /\ result' = [result EXCEPT ![c] = FailureRecord(err, total_deleted'[c])]
    ELSE /\ pc' = [pc EXCEPT ![c] = "Raised"]
         /\ result' = [result EXCEPT ![c] = NoResult]

\* What is kept of a returned dict once the next Run is entered.
Summary(r) ==
    IF "success" \in DOMAIN r
    THEN [success |-> r.success, total_deleted |-> r.total_deleted]
    ELSE NoResult

\* delete_all_records(progress_callback) is entered, with a callback (cb) or
\* without: the counters are reset.
Enter(c, cb) ==
    /\ Returned(c)
    /\ observer' = [observer EXCEPT ![c] = cb]
    /\ total_deleted' = [total_deleted EXCEPT ![c] = ResetTotalDeleted(@)]
    /\ pc' = [pc EXCEPT ![c] = "Counting"]
    /\ result' = [result EXCEPT ![c] = NoResult]
    /\ initial_count' = [initial_count EXCEPT ![c] = 0]
    /\ batches_processed' = [batches_processed EXCEPT ![c] = 0]
    /\ batch' = [batch EXCEPT ![c] = <<>>]
    /\ observer_log' = [observer_log EXCEPT ![c] = <<>>]
    /\ calls' = [calls EXCEPT ![c] = <<>>]
    /\ committed' = [committed EXCEPT ![c] = <<>>]
    /\ table0' = [table0 EXCEPT ![c] = table]
    /\ prev_run' = [prev_run EXCEPT ![c] = Summary(result[c])]
    /\ UNCHANGED <<table, batch_size, stats, ext_writes, conn_log>>

\* delete_all_records called on the controller directly.
Run(c) == (\E cb \in BOOLEAN : Enter(c, cb)) /\ UNCHANGED cli_vars

\* initial_count = count_binaries_deleted_records(); return at once when 0.
InitialCount(c) ==
    /\ pc[c] = "Counting"
    /\ \E fail \in ReadFails :
        LET out == count_binaries_deleted_records(table, fail)
        IN  /\ table' = out.table
            /\ calls' = [calls EXCEPT ![c] = Append(@, Call("count", out, out.ret, <<>>))]
            /\ conn_log' = count_conn(fail)
            /\ UNCHANGED total_deleted
            /\ IF out.raised
               THEN Except(c, out.error) /\ UNCHANGED initial_count
               ELSE IF EarlyReturn(out.ret)
               THEN /\ pc' = [pc EXCEPT ![c] = "Done"]
                    /\ result' = [result EXCEPT ![c] = EmptyRecord]
                    /\ initial_count' = [initial_count EXCEPT ![c] = out.ret]
               ELSE /\ pc' = [pc EXCEPT ![c] = "Looping"]
                    /\ initial_count' = [initial_count EXCEPT ![c] = out.ret]
                    /\ UNCHANGED result
    /\ UNCHANGED <<batch_size, batches_processed, batch, observer, observer_log,
                   committed, table0, prev_run, stats, ext_writes, env, cli, valid>>

\* batch = get_binaries_deleted_batch(batch_size, offset=0); break when empty.
FetchBatch(c) ==
    /\ pc[c] = "Looping"
    /\ \E fail \in ReadFails :
        LET out == get_binaries_deleted_batch(table, batch_size[c], 0, fail)
        IN  /\ table' = out.table
            /\ calls' = [calls EXCEPT ![c] =
                            Append(@, Call("fetch", out,
                                           IF out.raised THEN 0 ELSE Len(out.ret),
                                           IF out.raised THEN <<>> ELSE out.ret))]
            /\ conn_log' = fetch_conn(fail)
            /\ UNCHANGED total_deleted
            /\ IF out.raised
               THEN Except(c, out.error) /\ UNCHANGED batch
               ELSE IF NoMoreRecords(out.ret)
               THEN /\ pc' = [pc EXCEPT ![c] = "Verifying"]
                    /\ batch' = [batch EXCEPT ![c] = out.ret]
                    /\ UNCHANGED result
               ELSE /\ pc' = [pc EXCEPT ![c] = "Deleting"]
                    /\ batch' = [batch EXCEPT ![c] = out.ret]
                    /\ UNCHANGED result
    /\ UNCHANGED <<batch_size, initial_count, batches_processed, observer,
                   observer_log, committed, table0, prev_run, stats, ext_writes,
                   env, cli, valid>>

\* deleted_count = delete_binaries_deleted_batch(binary_ids); the counters;
\* progress_callback(...) when one was given (it is taken to return); sleep.
DeleteBatch(c) ==
    /\ pc[c] = "Deleting"
    /\ \E fail \in WriteFails :
        LET out == delete_binaries_deleted_batch(table, batch[c], fail)
            total == AddDeleted(total_deleted[c], out.ret)
            number == batches_processed[c] + 1
        IN  /\ table' = out.table
            /\ calls' = [calls EXCEPT ![c] = Append(@, Call("delete", out, out.ret, batch[c]))]
            /\ conn_log' = delete_conn(batch[c], fail)
            /\ IF out.raised
               THEN /\ UNCHANGED <<total_deleted, batches_processed, observer_log,
                                   committed>>
                    /\ Except(c, out.error)
               ELSE /\ total_deleted' = [total_deleted EXCEPT ![c] = total]
                    /\ batches_processed' = [batches_processed EXCEPT ![c] = number]
                    /\ committed' = [committed EXCEPT ![c] = Append(@, out.ret)]
                    /\ observer_log' =
                         [observer_log EXCEPT ![c] =
                             IF observer[c]
                             THEN Append(@, [batch_number |-> number,
                                             batch_deleted |-> out.ret,
                                             total_deleted |-> total,
                                             initial_count |-> initial_count[c]])
                             ELSE @]
                    /\ pc' = [pc EXCEPT ![c] = "Looping"]
                    /\ UNCHANGED result
    /\ UNCHANGED <<batch_size, initial_count, batch, observer, table0, prev_run,
                   stats, ext_writes, env, cli, valid>>

\* final_count = count_binaries_deleted_records(); the success record.
FinalCount(c) ==
    /\ pc[c] = "Verifying"
    /\ \E fail \in ReadFails :
        LET out == count_binaries_deleted_records(table, fail)
        IN  /\ table' = out.table
            /\ calls' = [calls EXCEPT ![c] = Append(@, Call("count", out, out.ret, <<>>))]
            /\ conn_log' = count_conn(fail)
            /\ UNCHANGED total_deleted
            /\ IF out.raised
               THEN Except(c, out.error)
               ELSE /\ pc' = [pc EXCEPT ![c] = "Done"]
                    /\ result' = [result EXCEPT ![c] =
                                     SuccessRecord(initial_count[c], out.ret,
                                                   total_deleted[c],
                                                   batches_processed[c])]
    /\ UNCHANGED <<batch_size, initial_count, batches_processed, batch, observer,
                   observer_log, committed, table0, prev_run, stats, ext_writes,
                   env, cli, valid>>

PreviewFrame ==
    UNCHANGED <<batch_size, total_deleted, pc, initial_count, batches_processed,
                batch, result, observer, observer_log, calls, committed, table0,
                prev_run, ext_writes>>

StatsOf(out) ==
    IF out.raised THEN [raised |-> TRUE, error |-> out.error] ELSE out.ret

\* get_deletion_statistics() called and returned (or raised).
Statistics(c) ==
    /\ \E fail \in ReadFails :
        LET out == get_deletion_statistics(table, batch_size[c], fail)
        IN  /\ table' = out.table
            /\ conn_log' = count_conn(fail)
            /\ stats' = [stats EXCEPT ![c] = StatsOf(out)]
    /\ PreviewFrame

\* Preview without the sample.
GetDeletionStatistics(c) ==
    /\ Returned(c)
    /\ Statistics(c)
    /\ UNCHANGED cli_vars

\* Preview with the sample of identifiers.
DryRun(c) ==
    /\ Returned(c)
    /\ \E fail \in ReadFails, fail_sample \in ReadFails :
        LET out == dry_run(table, batch_size[c], fail, fail_sample)
        IN  /\ table' = out.table
            /\ conn_log' = count_conn(fail)
                            \o IF out.raised THEN <<>> ELSE fetch_conn(fail_sample)
            /\ stats' = [stats EXCEPT ![c] = StatsOf(out)]
    /\ PreviewFrame
    /\ UNCHANGED cli_vars

\* Somebody else inserts or deletes one row.
ExternalWrite ==
    /\ ext_writes < MaxExternal
    /\ \E id \in Ids :
        table' = IF id \in table THEN table \ {id} ELSE table \cup {id}
    /\ ext_writes' = ext_writes + 1
    /\ UNCHANGED <<batch_size, total_deleted, pc, initial_count, batches_processed,
                   batch, result, observer, observer_log, calls, committed, table0,
                   prev_run, stats, conn_log, env, cli, valid>>

\* validate_environment() called and returned (or raised).
Validate(c) ==
    /\ \E fail \in ProbeFails :
        LET out == validate_environment(table, fail)
        IN  /\ table' = out.table
            /\ conn_log' = test_conn(fail)
            /\ valid' = [valid EXCEPT ![c] =
                            [raised |-> out.raised, ret |-> out.ret, fail |-> fail]]
    /\ UNCHANGED <<batch_size, total_deleted, pc, initial_count, batches_processed,
                   batch, result, observer, observer_log, calls, committed, table0,
                   prev_run, stats, ext_writes>>

\* ---------------------------------------------------------------- cli.main
\* The controller cli.main builds.
Deleter == "c1"

Exit(code, message) ==
    [cli EXCEPT !.pc = "Exit", !.code = code, !.error = message]

Goto(label) == [cli EXCEPT !.pc = label]

\* Variant: the prompt is skipped whatever --force says.
NeedsConfirmationNever(force) == FALSE

\* if not force: ... Confirm.ask(...)
NeedsConfirmation(force) == ~force

\* if stats["total_records"] == 0: return
NothingToDelete(total_records) == total_records = 0

\* display_results: the success branch reads initial_count, final_count,
\* total_deleted, batches_processed; a missing key is a KeyError, which the
\* except Exception of main turns into exit code 1, as is success = false.
ExitCode(r) ==
    IF "success" \notin DOMAIN r THEN 1
    ELSE IF r.success
    THEN IF "final_count" \in DOMAIN r THEN 0 ELSE 1
    ELSE 1

\* deleter = BinariesDeleter(batch_size=batch_size): DatabaseManager() builds
\* DatabaseConfig(), whose ValueError ends main with exit code 1.
CliInit ==
    /\ cli.pc = "Start"
    /\ LET cfg == DatabaseConfig(env)
       IN  cli' = IF cfg.raised THEN Exit(1, cfg.error) ELSE Goto("Validate")
    /\ UNCHANGED <<table, batch_size, total_deleted, pc, initial_count,
                   batches_processed, batch, result, observer, observer_log, calls,
                   committed, table0, prev_run, stats, ext_writes, conn_log, env,
                   valid>>

\* if not deleter.validate_environment(): sys.exit(1)
CliValidate ==
    /\ cli.pc = "Validate"
    /\ Validate(Deleter)
    /\ cli' = IF valid'[Deleter].raised THEN Exit(1, <<"Unexpected error">>)
              ELSE IF ~valid'[Deleter].ret
              THEN Exit(1, <<"Database validation failed">>)
              ELSE Goto("Stats")
    /\ UNCHANGED env

\* stats = deleter.get_deletion_statistics(); return when there is nothing to
\* delete, return on --dry-run, ask unless --force.
CliStats ==
    /\ cli.pc = "Stats"
    /\ Statistics(Deleter)
    /\ cli' = IF "raised" \in DOMAIN stats'[Deleter]
              THEN Exit(1, <<"Unexpected error">>)
              ELSE IF NothingToDelete(stats'[Deleter].total_records)
              THEN Exit(0, <<>>)
              ELSE IF cli.dry_run THEN Exit(0, <<>>)
              ELSE IF NeedsConfirmation(cli.force) THEN Goto("Confirm")
              ELSE Goto("Run")
    /\ UNCHANGED <<env, valid>>

\* Confirm.ask(...): the user answers yes or no.
CliConfirm ==
    /\ cli.pc = "Confirm"
    /\ \E answer \in BOOLEAN :
        cli' = IF answer THEN [cli EXCEPT !.pc = "Run", !.confirmed = TRUE]
               ELSE Exit(0, <<>>)
    /\ UNCHANGED <<table, batch_size, total_deleted, pc, initial_count,
                   batches_processed, batch, result, observer, observer_log, calls,
                   committed, table0, prev_run, stats, ext_writes, conn_log, env,
                   valid>>

\* results = deleter.delete_all_records(progress_callback=progress_update)
CliRun ==
    /\ cli.pc = "Run"
    /\ Enter(Deleter, TRUE)
    /\ cli' = Goto("Running")
    /\ UNCHANGED <<env, valid>>

\* display_results(results); sys.exit(1) unless results["success"].
CliFinish ==
    /\ cli.pc = "Running"
    /\ pc[Deleter] \in {"Done", "Failed", "Raised"}
    /\ cli' = Exit(ExitCode(result[Deleter]), <<>>)
    /\ UNCHANGED <<table, batch_size, total_deleted, pc, initial_count,
                   batches_processed, batch, result, observer, observer_log, calls,
                   committed, table0, prev_run, stats, ext_writes, conn_log, env,
                   valid>>

\* ---------------------------------------------------------------- specifications
Init ==
    /\ table \in SUBSET Ids
    /\ batch_size \in [Controllers -> 1..MaxBatch]
    /\ total_deleted = [c \in Controllers |-> 0]
    /\ pc = [c \in Controllers |-> "Idle"]
    /\ initial_count = [c \in Controllers |-> 0]
    /\ batches_processed = [c \in Controllers |-> 0]
    /\ batch = [c \in Controllers |-> <<>>]
    /\ result = [c \in Controllers |-> NoResult]
    /\ observer = [c \in Controllers |-> FALSE]
    /\ observer_log = [c \in Controllers |-> <<>>]
    /\ calls = [c \in Controllers |-> <<>>]
    /\ committed = [c \in Controllers |-> <<>>]
    /\ table0 = [c \in Controllers |-> table]
    /\ prev_run = [c \in Controllers |-> NoResult]
    /\ stats = [c \in Controllers |-> NoStats]
    /\ ext_writes = 0
    /\ conn_log = <<>>
    /\ env \in EnvStates
    /\ cli \in [pc : {"Start"}, dry_run : BOOLEAN, force : BOOLEAN,
                 confirmed : {FALSE}, code : {-1}, error : {<<>>}]
    /\ valid = [c \in Controllers |-> NoProbe]

\* The steps of delete_all_records.
RunStep(c) ==
    \/ Run(c)
    \/ InitialCount(c)
    \/ FetchBatch(c)
    \/ DeleteBatch(c)
    \/ FinalCount(c)

\* The two previews.
PreviewStep(c) ==
    \/ GetDeletionStatistics(c)
    \/ DryRun(c)

Step(c) == RunStep(c) \/ PreviewStep(c)

\* Only controller c1 is ever used, not through cli.main: the other one's
\* batch size, the environment and the flags are pinned.
InitOne ==
    /\ Init
    /\ batch_size["c2"] = 1
    /\ env = FullEnv
    /\ ~cli.dry_run
    /\ ~cli.force

\* One controller, nobody else writes to the table.
Next == Step("c1")

Spec == InitOne /\ [][Next]_vars

\* delete_all_records entered on a controller that has not run yet.
FirstRun(c) == pc[c] = "Idle" /\ Run(c)

\* One Run of one controller, and an external writer.
NextExt ==
    \/ FirstRun("c1")
    \/ InitialCount("c1")
    \/ FetchBatch("c1")
    \/ DeleteBatch("c1")
    \/ FinalCount("c1")
    \/ ExternalWrite

SpecExt == InitOne /\ [][NextExt]_vars

\* Two controllers, each with a batch size of its own, make one Run each
\* against the same table, their gateway calls interleaved in any order.
InitConc ==
    /\ Init
    /\ env = FullEnv
    /\ ~cli.dry_run
    /\ ~cli.force

\* delete_all_records() entered without a callback on a controller that has
\* not run yet.
QuietRun(c) == pc[c] = "Idle" /\ Enter(c, FALSE) /\ UNCHANGED cli_vars

OneRun(c) ==
    \/ QuietRun(c)
    \/ InitialCount(c)
    \/ FetchBatch(c)
    \/ DeleteBatch(c)
    \/ FinalCount(c)

NextConc == OneRun("c1") \/ OneRun("c2")

SpecConc == InitConc /\ [][NextConc]_vars

\* One Run of one controller and nobody else: once entered, every gateway
\* call of it returns or raises, and the code goes on to the next statement.
NextLive ==
    \/ FirstRun("c1")
    \/ InitialCount("c1")
    \/ FetchBatch("c1")
    \/ DeleteBatch("c1")
    \/ FinalCount("c1")

Proceed ==
    \/ InitialCount("c1")
    \/ FetchBatch("c1")
    \/ DeleteBatch("c1")
    \/ FinalCount("c1")

SpecLive == InitOne /\ [][NextLive]_vars /\ WF_vars(Proceed)

\* A statement of a Run after its entry whose gateway call does not fail.
Succeeds(c) ==
    /\ \/ InitialCount(c)
       \/ FetchBatch(c)
       \/ DeleteBatch(c)
       \/ FinalCount(c)
    /\ calls'[c][Len(calls'[c])].ok

\* Two controllers, one Run each against the same table, no gateway failure:
\* each Run, once entered, goes on whatever the other one does.
NextPair ==
    \/ QuietRun("c1")
    \/ QuietRun("c2")
    \/ Succeeds("c1")
    \/ Succeeds("c2")

SpecPair ==
    /\ InitConc
    /\ [][NextPair]_vars
    /\ WF_vars(Succeeds("c1"))
    /\ WF_vars(Succeeds("c2"))

\* cli.main run once, from any environment and any flags.
InitCli == Init /\ batch_size["c2"] = 1

NextCli ==
    \/ CliInit
    \/ CliValidate
    \/ CliStats
    \/ CliConfirm
    \/ CliRun
    \/ InitialCount(Deleter)
    \/ FetchBatch(Deleter)
    \/ DeleteBatch(Deleter)
    \/ FinalCount(Deleter)
    \/ CliFinish

SpecCli == InitCli /\ [][NextCli]_vars

\* ---------------------------------------------------------------- properties
\* Rows in the table when the current Run was entered.
N(c) == Cardinality(table0[c])

Last(s) == s[Len(s)]

\* The current Run has a gateway call that failed (always its last one).
GatewayFailed(c) == calls[c] # <<>> /\ ~Last(calls[c]).ok

C2_BatchesProcessed ==
    \A c \in Controllers :
        pc[c] = "Done" =>
            /\ result[c].batches_processed = CeilDiv(N(c), batch_size[c])
            /\ N(c) = 0 => /\ result[c].batches_processed = 0
                           /\ Len(calls[c]) = 1
                           /\ calls[c][1].op = "count"

\* A successful Run whose last batch is a partial one.
C2_Witness ==
    \E c \in Controllers :
        /\ pc[c] = "Done"
        /\ N(c) > batch_size[c]
        /\ N(c) % batch_size[c] # 0
        /\ result[c].batches_processed = (N(c) \div batch_size[c]) + 1

\* C3: in the record of every successful Run, the N = 0 one included,
\* total_deleted = initial_count - final_count, and total_deleted is the sum
\* of the deleted counts of the Run's batches.
C3_ResultAccounting ==
    \A c \in Controllers :
        pc[c] = "Done" =>
            /\ "final_count" \in DOMAIN result[c]
            /\ result[c].total_deleted =
                   result[c].initial_count - result[c].final_count
            /\ result[c].total_deleted = SumSeq(committed[c])

\* C4: when a gateway call fails after k batches were committed, Run returns
\* success = false with an error description and total_deleted = the sum of
\* the deleted counts of those k batches; nothing is rolled back and nothing
\* more is gone: the table holds N - total_deleted rows.
C4_PartialProgress ==
    \A c \in Controllers :
        GatewayFailed(c) =>
            /\ pc[c] = "Failed"
            /\ result[c].success = FALSE
            /\ result[c].error # ""
            /\ result[c].total_deleted = SumSeq(committed[c])
            /\ Len(committed[c]) =
                   Cardinality({i \in DOMAIN calls[c] :
                                   calls[c][i].op = "delete" /\ calls[c][i].ok})
            /\ table \subseteq table0[c]
            /\ Cardinality(table) = N(c) - result[c].total_deleted

\* The delete of the third batch fails: two full batches are reported.
C4_Witness ==
    \E c \in Controllers :
        /\ pc[c] = "Failed"
        /\ Last(calls[c]).op = "delete"
        /\ Len(committed[c]) = 2
        /\ N(c) > 2 * batch_size[c]
        /\ result[c].total_deleted = 2 * batch_size[c]
        /\ Cardinality(table) = N(c) - 2 * batch_size[c]

\* C5: the failure record carries batches_processed, the number of batches
\* completed before the failing gateway call.
C5_FailureBatches ==
    \A c \in Controllers :
        pc[c] = "Failed" =>
            /\ "batches_processed" \in DOMAIN result[c]
            /\ result[c].batches_processed = Len(committed[c])

\* C6: a failing gateway call never leaves Run as an unhandled fault: Run
\* has returned a record with success = false and an error description.
C6_FailureIsReported ==
    \A c \in Controllers :
        /\ pc[c] # "Raised"
        /\ GatewayFailed(c) =>
              /\ pc[c] = "Failed"
              /\ "success" \in DOMAIN result[c]
              /\ result[c].success = FALSE
              /\ result[c].error # ""

\* The final verification count fails, after the loop has deleted rows.
C6_Witness ==
    \E c \in Controllers :
        /\ pc[c] = "Failed"
        /\ Last(calls[c]).op = "count"
        /\ Len(calls[c]) > 1
        /\ result[c].error = "connect"
        /\ result[c].total_deleted > 0

\* C7: when the initial count returns 0, Run has returned success with
\* initial_count, total_deleted and batches_processed at 0, the count is the
\* only gateway call it made, and the table is as it was.
C7_EmptyTable ==
    \A c \in Controllers :
        (calls[c] # <<>> /\ calls[c][1].ok /\ calls[c][1].n = 0) =>
            /\ pc[c] = "Done"
            /\ result[c].success
            /\ result[c].initial_count = 0
            /\ result[c].total_deleted = 0
            /\ result[c].batches_processed = 0
            /\ total_deleted[c] = 0
            /\ Len(calls[c]) = 1
            /\ committed[c] = <<>>
            /\ table = table0[c]

\* A Run on the empty table has returned.
C7_Witness ==
    \E c \in Controllers :
        /\ pc[c] = "Done"
        /\ table0[c] = {}
        /\ calls[c] = <<[op |-> "count", ok |-> TRUE, n |-> 0, ids |-> <<>>]>>
        /\ result[c] = EmptyRecord

\* The Run before the current one returned success.
AfterSuccess(c) == "success" \in DOMAIN prev_run[c] /\ prev_run[c].success

\* C8: with no external writer, a Run entered after a successful Run starts
\* from zero and, when it returns success, returns initial_count =
\* total_deleted = batches_processed = 0: nothing of the earlier Run's
\* counters is left.
C8_Idempotent ==
    \A c \in Controllers :
        AfterSuccess(c) =>
            /\ total_deleted[c] = 0
            /\ batches_processed[c] = 0
            /\ pc[c] \notin {"Looping", "Deleting", "Verifying"}
            /\ pc[c] = "Done" =>
                  /\ result[c].success
                  /\ result[c].initial_count = 0
                  /\ result[c].total_deleted = 0
                  /\ result[c].batches_processed = 0

\* The second Run has returned, and the first one had deleted rows.
C8_Witness ==
    \E c \in Controllers :
        /\ AfterSuccess(c)
        /\ prev_run[c].total_deleted > 1
        /\ pc[c] = "Done"
        /\ result[c] = EmptyRecord

\* C9: a preview step, get_deletion_statistics or dry_run, whatever fails in
\* it, leaves the table as it was.
C9_PreviewReadOnly ==
    [][\A c \in Controllers :
          (GetDeletionStatistics(c) \/ DryRun(c)) => table' = table]_vars

\* A dry run over the full table whose sample fetch failed has returned (its
\* sample is empty), and the table still holds every row.
C9_Witness ==
    \E c \in Controllers :
        /\ "sample_records" \in DOMAIN stats[c]
        /\ stats[c].total_records = MaxId
        /\ stats[c].sample_records = <<>>
        /\ Cardinality(table) = MaxId

\* total_deleted as the observer saw it before its i-th invocation.
SeenBefore(log, i) == IF i = 1 THEN 0 ELSE log[i - 1].total_deleted

\* C10: during a Run with an observer the observer has been invoked once per
\* batch processed, and the total_deleted values it is given never decrease
\* and increase whenever batch_deleted > 0.
C10_Observer ==
    \A c \in Controllers :
        LET log == observer_log[c]
        IN  /\ observer[c] => Len(log) = batches_processed[c]
            /\ (observer[c] /\ pc[c] = "Done") =>
                   Len(log) = result[c].batches_processed
            /\ ~observer[c] => log = <<>>
            /\ \A i \in DOMAIN log :
                  /\ log[i].batch_number = i
                  /\ log[i].total_deleted >= SeenBefore(log, i)
                  /\ log[i].batch_deleted > 0 =>
                         log[i].total_deleted > SeenBefore(log, i)

\* A Run whose observer saw a batch that deleted nothing (its rows were gone
\* by the time of the delete) and then a batch that deleted rows.
C10_Witness ==
    \E c \in Controllers :
        /\ observer[c]
        /\ pc[c] = "Done"
        /\ Len(observer_log[c]) >= 2
        /\ observer_log[c][1].batch_deleted = 0
        /\ observer_log[c][2].batch_deleted > 0

\* C11: with no external writer, every delete of a Run that returns has
\* deleted as many rows as identifiers were handed to it, and those are the
\* identifiers of the page fetched just before.
C11_DeletedEqualsSubmitted ==
    \A c \in Controllers :
        \A i \in DOMAIN calls[c] :
            (calls[c][i].op = "delete" /\ calls[c][i].ok) =>
                /\ calls[c][i].n = Len(calls[c][i].ids)
                /\ calls[c][i - 1].op = "fetch"
                /\ calls[c][i].ids = calls[c][i - 1].ids
                /\ calls[c][i].n > 0

\* A Run has deleted a full page of more than one row and then a shorter one.
C11_Witness ==
    \E c \in Controllers :
        /\ Len(calls[c]) >= 5
        /\ calls[c][3].op = "delete" /\ calls[c][3].ok /\ calls[c][3].n > 1
        /\ calls[c][5].op = "delete" /\ calls[c][5].ok
        /\ calls[c][5].n < calls[c][3].n

\* C12: a delete of a batch is all or nothing.  When the call fails (at the
\* connect, at the execute or at the commit) the table is exactly as before
\* and nothing was committed; when it returns, exactly the rows of the batch
\* are gone and the commit is done.
C12_AtomicDelete ==
    [][\A c \in Controllers :
          DeleteBatch(c) =>
              IF Last(calls'[c]).ok
              THEN /\ table' = table \ SeqToSet(batch[c])
                   /\ "commit" \in SeqToSet(conn_log')
              ELSE /\ table' = table
                   /\ "commit" \notin SeqToSet(conn_log')]_vars

\* The commit of the second batch failed: the first batch is gone, the second
\* one is still there.
C12_Witness ==
    \E c \in Controllers :
        /\ pc[c] = "Failed"
        /\ Last(calls[c]).op = "delete"
        /\ result[c].error = "commit"
        /\ conn_log = <<"connect", "execute", "rollback", "close">>
        /\ Len(committed[c]) = 1
        /\ ext_writes = 0
        /\ SeqToSet(batch[c]) \subseteq table
        /\ table = table0[c] \ SeqToSet(calls[c][3].ids)

\* The number of connections open after the first i events of a log.
RECURSIVE Opens(_, _)
Opens(log, i) ==
    IF i = 0 THEN 0
    ELSE Opens(log, i - 1)
         + (IF log[i] = "connect" THEN 1 ELSE 0)
         - (IF log[i] = "close" THEN 1 ELSE 0)

\* C13: every gateway operation works on a connection of its own and closes
\* it exactly once, however it ends: a connection is opened only when none is
\* open, statements, commits, rollbacks and closes happen only on the open
\* connection, and none is open once the operation is over.
C13_ConnectionScoped ==
    /\ \A i \in DOMAIN conn_log :
        /\ Opens(conn_log, i) \in {0, 1}
        /\ Opens(conn_log, i - 1) = (IF conn_log[i] = "connect" THEN 0 ELSE 1)
    /\ Opens(conn_log, Len(conn_log)) = 0

\* cli.main went through the probe, the preview and a Run whose second
\* delete failed at the commit: the connection was rolled back and closed.
C13_Witness ==
    /\ cli.pc = "Exit"
    /\ cli.code = 1
    /\ valid[Deleter] = [raised |-> FALSE, ret |-> TRUE, fail |-> "none"]
    /\ pc[Deleter] = "Failed"
    /\ Len(calls[Deleter]) = 5
    /\ Last(calls[Deleter]).op = "delete"
    /\ conn_log = <<"connect", "execute", "rollback", "close">>

\* C14: validate_environment never raises and never changes the table: it
\* returns false when the probe fails at the connect, at the query or on an
\* unexpected row, and true exactly when the round trip succeeds.
C14_ValidateTotal ==
    [][CliValidate =>
          /\ table' = table
          /\ ~valid'[Deleter].raised
          /\ valid'[Deleter].ret = (valid'[Deleter].fail = "none")]_vars

\* The query of the probe failed on a table with rows: validation said
\* false, cli.main ended with code 1 and the rows are still there.
C14_Witness ==
    /\ valid[Deleter] = [raised |-> FALSE, ret |-> FALSE, fail |-> "execute"]
    /\ conn_log = <<"connect", "rollback", "close">>
    /\ cli.pc = "Exit"
    /\ cli.code = 1
    /\ table # {}
    /\ pc[Deleter] = "Idle"

\* C15: there is no retry.  A gateway call that failed is the last call of
\* its Run, and the Run has returned the failure record carrying that error.
C15_NoRetry ==
    \A c \in Controllers :
        \A i \in DOMAIN calls[c] :
            ~calls[c][i].ok =>
                /\ i = Len(calls[c])
                /\ pc[c] = "Failed"
                /\ ~result[c].success
                /\ result[c].error \in ReadFails \cup WriteFails
                /\ result[c].error # "none"

\* The fetch after the first delete failed: the Run returned with rows left
\* in the table and four calls made.
C15_Witness ==
    \E c \in Controllers :
        /\ pc[c] = "Failed"
        /\ Len(calls[c]) = 4
        /\ calls[c][3].op = "delete"
        /\ calls[c][4].op = "fetch"
        /\ ~calls[c][4].ok
        /\ result[c].total_deleted = calls[c][3].n
        /\ table # {}

\* The call at position i of a Run's log may follow the one before it.
InOrder(log, i) ==
    LET this == log[i]
        prev == log[i - 1]
    IN  IF i = 1 THEN this.op = "count"
        ELSE /\ prev.ok
             /\ this.op = "fetch" =>
                    \/ i = 2 /\ prev.op = "count" /\ prev.n > 0
                    \/ prev.op = "delete"
             /\ this.op = "delete" =>
                    /\ prev.op = "fetch"
                    /\ prev.ids # <<>>
                    /\ this.ids = prev.ids
             /\ this.op = "count" =>
                    /\ prev.op = "fetch"
                    /\ prev.ids = <<>>
                    /\ i = Len(log)

\* C19: the gateway calls of a Run come in the order count, then pairs of a
\* fetch of a non-empty page and the delete of exactly that page (each
\* reported to the observer before anything else happens), then one fetch of
\* an empty page, then the final count; the position of the Run is the one
\* its last call leads to, and a failed call leads to Failed from anywhere.
C19_CallOrder ==
    \A c \in Controllers :
        LET log == calls[c]
            deletes == {i \in DOMAIN log : log[i].op = "delete" /\ log[i].ok}
        IN  /\ \A i \in DOMAIN log : InOrder(log, i)
            /\ Len(observer_log[c]) = IF observer[c] THEN Cardinality(deletes) ELSE 0
            /\ pc[c] \in {"Idle", "Counting", "Looping", "Deleting", "Verifying",
                          "Done", "Failed"}
            /\ pc[c] \in {"Idle", "Counting"} => log = <<>>
            /\ pc[c] \notin {"Idle", "Counting"} => log # <<>>
            /\ log # <<>> =>
                    pc[c] = IF ~Last(log).ok THEN "Failed"
                            ELSE IF Last(log).op = "delete" THEN "Looping"
                            ELSE IF Last(log).op = "fetch"
                            THEN IF Last(log).ids = <<>> THEN "Verifying"
                                 ELSE "Deleting"
                            ELSE IF Len(log) = 1 /\ Last(log).n > 0 THEN "Looping"
                            ELSE "Done"
            /\ pc[c] = "Deleting" => batch[c] = Last(log).ids
            /\ pc[c] = "Done" => result[c].success

\* A Run with an observer went through two batches, an empty page and the
\* verification: seven calls, two notifications.
C19_Witness ==
    \E c \in Controllers :
        /\ pc[c] = "Done"
        /\ Len(calls[c]) = 7
        /\ calls[c][6].op = "fetch"
        /\ calls[c][6].ids = <<>>
        /\ calls[c][7].op = "count"
        /\ Len(observer_log[c]) = 2
        /\ result[c].initial_count > 0

\* validate_environment returned true.
Validated ==
    /\ "ret" \in DOMAIN valid[Deleter]
    /\ ~valid[Deleter].raised
    /\ valid[Deleter].ret

\* The preview returned and reported at least one row.
PreviewedRows ==
    /\ "total_records" \in DOMAIN stats[Deleter]
    /\ stats[Deleter].total_records > 0

\* C17: cli.main enters delete_all_records only after validate_environment
\* returned true, the preview reported rows, --dry-run is not set, and
\* --force is set or the user said yes; as long as it has not been entered
\* (failed validation, empty table, dry run, declined prompt, or an error
\* before), the table has all the rows it started with.
C17_RunGuarded ==
    /\ pc[Deleter] # "Idle" =>
           /\ Validated
           /\ PreviewedRows
           /\ ~cli.dry_run
           /\ cli.force \/ cli.confirmed
           /\ cli.pc \in {"Running", "Exit"}
    /\ pc[Deleter] = "Idle" =>
           /\ table = table0[Deleter]
           /\ calls[Deleter] = <<>>
    /\ cli.pc = "Exit" /\ Validated /\ PreviewedRows /\ ~cli.dry_run /\ cli.force =>
           pc[Deleter] # "Idle"

\* Without --force the user said yes and the Run emptied a table of several
\* rows; cli.main ended with code 0.
C17_Witness ==
    /\ ~cli.force
    /\ cli.confirmed
    /\ cli.pc = "Exit"
    /\ cli.code = 0
    /\ pc[Deleter] = "Done"
    /\ Cardinality(table0[Deleter]) > 1
    /\ table = {}

\* The required variables that are absent or empty, in the order of the list.
Unset(v) == env[v] \in {"absent", "empty"}
UnsetVars == SelectSeq(RequiredVars, Unset)

\* C18: when a required variable (DB_HOST, DB_NAME, DB_USER, DB_PASSWORD) is
\* absent or empty, building the configuration raises, cli.main ends with
\* code 1 and an error that says what is wrong (the list of exactly the
\* missing variables, unless DB_PORT is no number, which is reported first),
\* and storage is never touched: no connection event, no probe, no preview,
\* no Run, the table as it was.
C18_FailFast ==
    UnsetVars # <<>> =>
        /\ DatabaseConfig(env).raised
        /\ cli.pc \in {"Start", "Exit"}
        /\ cli.pc = "Exit" =>
               /\ cli.code = 1
               /\ cli.error # <<>>
               /\ env["DB_PORT"] # "empty" =>
                      cli.error = <<"Missing required environment variables">>
                                  \o UnsetVars
        /\ conn_log = <<>>
        /\ valid[Deleter] = NoProbe
        /\ stats[Deleter] = NoStats
        /\ pc[Deleter] = "Idle"
        /\ calls[Deleter] = <<>>
        /\ table = table0[Deleter]

\* DB_PASSWORD is set to the empty string and DB_USER is absent: cli.main
\* has ended naming both, with rows in a table nobody looked at.
C18_Witness ==
    /\ env["DB_PASSWORD"] = "empty"
    /\ env["DB_USER"] = "absent"
    /\ env["DB_HOST"] = "set"
    /\ cli.pc = "Exit"
    /\ cli.error = <<"Missing required environment variables", "DB_USER",
                     "DB_PASSWORD">>
    /\ conn_log = <<>>
    /\ table # {}

\* The identifiers the pages fetched by a controller held, and those of the
\* controllers other than c.
FetchedBy(d) ==
    UNION {SeqToSet(calls[d][j].ids) :
              j \in {k \in DOMAIN calls[d] : calls[d][k].op = "fetch"}}

FetchedByOthers(c) == UNION {FetchedBy(d) : d \in Controllers \ {c}}

\* C16: with two Runs interleaved, a delete reports fewer rows than it was
\* handed identifiers only through a double fetch: the rows it came too late
\* for are among the identifiers the other controller had fetched as well.
C16_ShortfallIsDoubleFetch ==
    \A c \in Controllers :
        \A i \in DOMAIN calls[c] :
            (calls[c][i].op = "delete" /\ calls[c][i].ok) =>
                /\ calls[c][i].n <= Len(calls[c][i].ids)
                /\ Len(calls[c][i].ids) - calls[c][i].n
                       <= Cardinality(SeqToSet(calls[c][i].ids) \cap FetchedByOthers(c))

\* Both controllers fetched the same first page; one deleted it in full, the
\* other one's delete of the same identifiers returned with fewer rows.
C16_Witness ==
    \E c \in Controllers :
        \E d \in Controllers \ {c} :
            /\ Len(calls[c]) >= 3
            /\ Len(calls[d]) >= 3
            /\ calls[c][2].op = "fetch"
            /\ calls[c][2].ids # <<>>
            /\ calls[d][2].ids = calls[c][2].ids
            /\ calls[d][3].ok
            /\ calls[d][3].n = Len(calls[d][3].ids)
            /\ calls[c][3].ok
            /\ calls[c][3].op = "delete"
            /\ calls[c][3].n < Len(calls[c][3].ids)

\* The Run has ended: with success after the count of 0 or after a fetch of
\* an empty page and the final count, or with the failure record after a
\* call that failed.
Terminated(c) ==
    \/ /\ pc[c] = "Done"
       /\ \/ Len(calls[c]) = 1
          \/ /\ calls[c][Len(calls[c]) - 1].op = "fetch"
             /\ calls[c][Len(calls[c]) - 1].ids = <<>>
    \/ /\ pc[c] = "Failed"
       /\ ~Last(calls[c]).ok

\* C20: with nobody else writing, a Run that was entered always ends, for
\* every table and batch size: every delete that returns leaves the table
\* strictly smaller, and the Run reaches Done or Failed.
C20_Terminates ==
    /\ [][\A c \in Controllers :
            (DeleteBatch(c) /\ Last(calls'[c]).ok) =>
                Cardinality(table') < Cardinality(table)]_vars
    /\ \A c \in {"c1"} : (pc[c] = "Counting") ~> Terminated(c)

\* The longest Run there is has ended: a full table deleted one row per
\* batch.
C20_Witness ==
    /\ pc["c1"] = "Done"
    /\ batch_size["c1"] = 1
    /\ batches_processed["c1"] = MaxId
    /\ Len(calls["c1"]) = 2 * MaxId + 3
    /\ table = {}

\* The identifiers of the batches of the current Run whose delete returned.
DeletedIds(c) ==
    UNION {SeqToSet(calls[c][i].ids) :
              i \in {k \in DOMAIN calls[c] :
                        calls[c][k].op = "delete" /\ calls[c][k].ok}}

\* C21: with no external writer, from the initial count of a Run on, and so
\* at every batch boundary and after every abort, the table is the initial
\* rows minus the rows of the committed batches: rows remaining plus
\* total_deleted is initial_count, and the rows remaining are the largest
\* identifiers of the initial set.
C21_BoundaryConsistent ==
    \A c \in Controllers :
        (calls[c] # <<>> /\ calls[c][1].ok) =>
            /\ table = table0[c] \ DeletedIds(c)
            /\ DeletedIds(c) \subseteq table0[c]
            /\ initial_count[c] = Cardinality(table0[c])
            /\ Cardinality(table) + total_deleted[c] = initial_count[c]
            /\ total_deleted[c] = SumSeq(committed[c])
            /\ \A r \in table : \A d \in table0[c] \ table : d < r

\* The boundary after the second batch of a Run, with rows still to delete.
C21_Witness ==
    \E c \in Controllers :
        /\ pc[c] = "Looping"
        /\ Len(committed[c]) = 2
        /\ total_deleted[c] > 0
        /\ table # {}
        /\ table # table0[c]

\* The rows of the table when the first of the Runs was entered.
InitialRows == UNION {table0[c] : c \in Controllers}

\* C22: two Runs interleaved on one table with no gateway failure delete
\* every row exactly once.  The two totals always add up to the rows gone
\* so far, a Run never fails, a Run that is done returned success and left
\* the table empty, so that the totals of two finished Runs add up to N;
\* and every Run that was entered gets done.
C22_EachRowOnce ==
    /\ [](/\ total_deleted["c1"] + total_deleted["c2"]
               = Cardinality(InitialRows \ table)
          /\ \A c \in Controllers :
                /\ pc[c] # "Failed"
                /\ pc[c] = "Done" =>
                       /\ result[c].success
                       /\ result[c].total_deleted = total_deleted[c]
                       /\ table = {}
          /\ (\A c \in Controllers : pc[c] = "Done") =>
                total_deleted["c1"] + total_deleted["c2"] = Cardinality(InitialRows))
    /\ \A c \in Controllers : (pc[c] = "Counting") ~> (pc[c] = "Done")

\* Both Runs are done, each having counted all the rows at its start and
\* deleted only some of them.
C22_Witness ==
    /\ \A c \in Controllers :
        /\ pc[c] = "Done"
        /\ result[c].initial_count = Cardinality(InitialRows)
        /\ 0 < result[c].total_deleted
        /\ result[c].total_deleted < result[c].initial_count
    /\ table = {}

\* The latest preview of c returned, for the batch size of c, and counted as
\* many rows as the table had when the current Run was entered: with nobody
\* else writing, the table only shrinks, so it was taken on that very table.
PreviewOfRun(c) ==
    /\ "total_records" \in DOMAIN stats[c]
    /\ stats[c].batch_size = batch_size[c]
    /\ stats[c].total_records = N(c)

\* C23: with no external writer and no gateway failure, the estimated_batches
\* of a preview equals the batches_processed reported by a Run on the same
\* table with the same batch size, the empty table included; both are the
\* number of rows divided by the batch size, rounded up.
C23_EstimateIsExact ==
    \A c \in Controllers :
        (pc[c] = "Done" /\ PreviewOfRun(c)) =>
            /\ result[c].success
            /\ stats[c].estimated_batches = result[c].batches_processed
            /\ result[c].batches_processed = CeilDiv(N(c), batch_size[c])

\* A preview and a finished Run on a table whose size is more than one
\* batch and no multiple of the batch size.
C23_Witness ==
    \E c \in Controllers :
        /\ pc[c] = "Done"
        /\ PreviewOfRun(c)
        /\ N(c) > batch_size[c]
        /\ N(c) % batch_size[c] # 0
        /\ result[c].batches_processed = stats[c].estimated_batches

====
